---- MODULE Spec2Model ----
(***************************************************************************)
(* Model of populate_db.py: the configuration check, the three record      *)
(* generators, insert_in_batches and the driver under __main__.            *)
(*                                                                         *)
(* Abstractions.  A generated record keeps only the field that a property  *)
(* below reads: a user its (unique) email, a product its category, an      *)
(* order its two foreign keys.  The amounts NUM_USERS, NUM_PRODUCTS,       *)
(* NUM_ORDERS and BATCH_SIZE are module-level settings of the script; the  *)
(* model draws them from small ranges in Init.  The backend is the         *)
(* environment: for every remote call it either raises or answers with a   *)
(* response that carries a data list, an error indicator, both or neither. *)
(*                                                                         *)
(* A step of the model is one statement of the script (a test is taken     *)
(* with the statement it selects), and a SIGINT may end the process        *)
(* between any two of them: nothing in the file catches KeyboardInterrupt. *)
(*                                                                         *)
(* Spec is the whole script.  SpecInsert runs insert_in_batches on its own *)
(* on lists of every length from 0, SpecGen the three generators on their  *)
(* own on every count from 0 and on empty and non-empty id pools.          *)
(***************************************************************************)
EXTENDS Integers, Sequences, FiniteSets, TLC

VARIABLES
    SUPABASE_URL,          \* os.environ.get("SUPABASE_URL") after load_dotenv
    SUPABASE_SERVICE_KEY,  \* os.environ.get("SUPABASE_SERVICE_KEY")
    NUM_USERS, NUM_PRODUCTS, NUM_ORDERS, BATCH_SIZE,
    supabase,              \* TRUE once create_client has built the client
    pc,                    \* position of the script
    exit_code,             \* <<>> while running, <<status>> once the process ended
    table_name, data, i, inserted_data, total_inserted,  \* frame of insert_in_batches
    next_i,                \* the offset the range of line 104 yields next
    user_ids, product_ids, \* the driver's id pools
    extracted,             \* tables whose id pool the driver has computed
    out,                   \* lines printed by the driver and by generate_orders
    batch_log,             \* lines printed by the running insert_in_batches call
    submitted,             \* chunks handed to the remote insert by the running call
    responses,             \* outcomes of the remote inserts of the running call
    callLog,               \* the run's remote inserts: a "call" and a "return" event each
    echoed                 \* per table, the ids the backend returned in response data

vars == <<SUPABASE_URL, SUPABASE_SERVICE_KEY, NUM_USERS, NUM_PRODUCTS, NUM_ORDERS,
          BATCH_SIZE, supabase, pc, exit_code, table_name, data, i, next_i,
          inserted_data, total_inserted, user_ids, product_ids, extracted, out, batch_log,
          submitted, responses, callLog, echoed>>

\* ---------------------------------------------------------------- bounds
MaxUsers == 2
MaxProducts == 2
MaxOrders == 2
MaxBatch == 2
\* most rows a response returns beyond the records of its batch
MaxExtraRows == 1
\* largest integer a SystemExit raised inside execute() carries
MaxExitCode == 2
\* longest list handed to insert_in_batches when it is run on its own
MaxRecords == 3

\* ---------------------------------------------------------------- helpers
Min(a, b) == IF a < b THEN a ELSE b

\* ceil(n / b) for n >= 0, b >= 1
CeilDiv(n, b) == (n + b - 1) \div b

\* Python's s[a:b] for 0 <= a <= b
Slice(s, a, b) == SubSeq(s, a + 1, Min(b, Len(s)))

RECURSIVE Concat(_)
Concat(ss) == IF ss = <<>> THEN <<>> ELSE Head(ss) \o Concat(Tail(ss))

Range(s) == {s[k] : k \in 1..Len(s)}

Tables == {"users", "products", "orders"}

\* The value of an environment variable: unset (None), empty, or a text.
EnvValues == {"None", "", "set"}

\* `x is None`: an empty value passes
FalsyNoneOnly(x) == x = "None"

\* Python's `not x` for x in EnvValues
Falsy(x) == x \in {"None", ""}

Line(kind, table, n, m) == [kind |-> kind, table |-> table, n |-> n, m |-> m]

\* One end of a remote insert: the call of the chunk at offset `start`, or its return.
Event(ev, table, start) == [ev |-> ev, table |-> table, start |-> start]

Kinds(lines) == {lines[k].kind : k \in 1..Len(lines)}

\* ---------------------------------------------------------------- generators
\* fake.unique.email() hands out addresses that are pairwise distinct.
Emails == 1..MaxRecords

\* Two of the ten categories of generate_products.
Categories == {"Electronics", "Books"}

\* generate_users(count): the lists the function may return.
generate_users(count) ==
    {[k \in 1..count |-> [email |-> f[k]]] :
        f \in {g \in [1..count -> Emails] :
                  \A a, b \in 1..count : a # b => g[a] # g[b]}}

\* generate_products(count): the lists the function may return.
generate_products(count) ==
    [1..count -> {[category |-> c] : c \in Categories}]

\* TRUE when generate_orders takes its `not user_ids or not product_ids` branch.
PoolsMissing(uids, pids) == uids = <<>> \/ pids = <<>>

\* The two pools swapped
OrderChoicesSwapped(uids, pids) ==
    {[user_id |-> p, product_id |-> u] : u \in Range(uids), p \in Range(pids)}

\* One order: random.choice(user_ids), random.choice(product_ids).
OrderChoices(uids, pids) ==
    {[user_id |-> u, product_id |-> p] : u \in Range(uids), p \in Range(pids)}

\* range(1, count): one order too few
generate_orders_short(count, uids, pids) ==
    IF PoolsMissing(uids, pids)
    THEN {<<>>}
    ELSE [1..(count - 1) -> OrderChoices(uids, pids)]

\* generate_orders(count, user_ids, product_ids): the lists it may return.
generate_orders(count, uids, pids) ==
    IF PoolsMissing(uids, pids)
    THEN {<<>>}
    ELSE [1..count -> OrderChoices(uids, pids)]

\* ---------------------------------------------------------------- backend
\* What execute() can raise: an Exception, or a BaseException that is none
\* (Ctrl-C during the call, or an exit raised below the call).
Raisable == {"Exception", "KeyboardInterrupt", "SystemExit"}

\* The rows of a response's data: where the mask says so a row carries the id the
\* backend assigned, the next unused one of the table; the others carry none.
RECURSIVE Rows(_, _, _)
Rows(table, first, mask) ==
    IF mask = <<>> THEN <<>>
    ELSE IF Head(mask)
         THEN <<[id |-> <<table, first>>]>> \o Rows(table, first + 1, Tail(mask))
         ELSE <<[name |-> "row"]>> \o Rows(table, first, Tail(mask))

\* Which rows of a response to a batch of k records carry an id: one row or
\* more, up to MaxExtraRows more than the batch held.
Masks(k) == UNION {[1..r -> BOOLEAN] : r \in 1..(k + MaxExtraRows)}

\* What supabase.table(t).insert(batch).execute() can do: raise, or return a
\* response with any data list (empty, shorter or longer than the batch, rows
\* with or without an id), with or without an error indicator.
BackendResponses(table, batch, first) ==
    {[raised |-> x, data |-> <<>>, error |-> FALSE] : x \in Raisable}
    \cup
    {[raised |-> "none", data |-> <<>>, error |-> e] : e \in BOOLEAN}
    \cup
    {[raised |-> "none", data |-> Rows(table, first, m), error |-> e] :
        m \in Masks(Len(batch)), e \in BOOLEAN}

\* The ids carried by a list of rows.
IdsOf(rows) == {rows[k].id : k \in {j \in 1..Len(rows) : "id" \in DOMAIN rows[j]}}

\* ---------------------------------------------------------------- configuration
\* The script sets positive amounts (200, 500, 2500, in batches of 100).
Init ==
    /\ SUPABASE_URL \in EnvValues
    /\ SUPABASE_SERVICE_KEY \in EnvValues
    /\ NUM_USERS \in 1..MaxUsers
    /\ NUM_PRODUCTS \in 1..MaxProducts
    /\ NUM_ORDERS \in 1..MaxOrders
    /\ BATCH_SIZE \in 1..MaxBatch
    /\ supabase = FALSE
    /\ pc = "config"
    /\ exit_code = <<>>
    /\ table_name = "none"
    /\ data = <<>>
    /\ i = 0
    /\ next_i = 0
    /\ inserted_data = <<>>
    /\ total_inserted = 0
    /\ user_ids = <<>>
    /\ product_ids = <<>>
    /\ extracted = {}
    /\ out = <<>>
    /\ batch_log = <<>>
    /\ submitted = <<>>
    /\ responses = <<>>
    /\ callLog = <<>>
    /\ echoed = [t \in Tables |-> {}]

\* The test of line 16.
ConfigMissing == Falsy(SUPABASE_URL) \/ Falsy(SUPABASE_SERVICE_KEY)

frame == <<table_name, data, i, next_i, inserted_data, total_inserted, batch_log,
           submitted, responses>>
settings == <<SUPABASE_URL, SUPABASE_SERVICE_KEY, NUM_USERS, NUM_PRODUCTS,
              NUM_ORDERS, BATCH_SIZE>>
pools == <<user_ids, product_ids, extracted>>

\* Lines 16-17: raise ValueError; the uncaught exception ends the process with status 1.
ConfigError ==
    /\ pc = "config"
    /\ ConfigMissing
    /\ pc' = "config_error"
    /\ exit_code' = <<1>>
    /\ UNCHANGED <<settings, supabase, frame, pools, out, callLog, echoed>>

\* Lines 16, 20: both values are set; create_client builds the client.
CreateClient ==
    /\ pc = "config"
    /\ ~ConfigMissing
    /\ supabase' = TRUE
    /\ pc' = "main"
    /\ UNCHANGED <<settings, exit_code, frame, pools, out, callLog, echoed>>

\* ---------------------------------------------------------------- insert_in_batches
\* Lines 98-101: the call binds table_name and data and creates the two locals.
\* The loop variable i is unbound until the first round; the model holds 0.
Enter(table, d) ==
    /\ table_name' = table
    /\ data' = d
    /\ i' = 0
    /\ next_i' = 0
    /\ inserted_data' = <<>>
    /\ total_inserted' = 0
    /\ batch_log' = <<>>
    /\ submitted' = <<>>
    /\ responses' = <<>>
    /\ pc' = "attempt"

\* Line 102
PrintAttempting ==
    /\ pc = "attempt"
    /\ batch_log' = Append(batch_log, Line("attempting", table_name, Len(data), BATCH_SIZE))
    /\ pc' = "loop"
    /\ UNCHANGED <<settings, supabase, exit_code, table_name, data, i, next_i,
                   inserted_data, total_inserted, submitted, responses, pools, out,
                   callLog, echoed>>

\* data[i:i + batch_size - 1]: every chunk loses its last record
ChunkShort(d, idx, size) == Slice(d, idx, idx + size - 1)

\* Line 105: batch = data[i:i + batch_size]
Chunk(d, idx, size) == Slice(d, idx, idx + size)

\* The offset does not advance: the same chunk is taken again
NextOffsetStuck(idx, size) == idx

\* Line 104: the value range(0, len(data), batch_size) yields after idx
NextOffset(idx, size) == idx + size

\* The next chunk is taken without waiting for the call in flight
LoopContinuesNoWait == pc \in {"loop", "wait"} /\ next_i < Len(data)

\* Line 104: the range has another value, the loop another round
LoopContinues == pc = "loop" /\ next_i < Len(data)

\* Line 115 and others: the batch number printed for offset idx
BatchNo(idx, size) == (idx \div size) + 1

\* Line 125: `except Exception` catches Exception and its subclasses only
ExceptionCaught(kind) == kind = "Exception"

\* Line 112, reached only when execute() did not raise
HasData(resp) == resp.raised = "none" /\ resp.data # <<>>

\* inserted_data = response.data: each batch overwrites the earlier ones
AccumulateOverwrite(acc, resp) == IF HasData(resp) THEN resp.data ELSE acc

\* Line 113: inserted_data.extend(response.data)
Accumulate(acc, resp) == IF HasData(resp) THEN acc \o resp.data ELSE acc

\* Line 114: total_inserted += len(response.data)
Count(total, resp) == IF HasData(resp) THEN total + Len(resp.data) ELSE total

\* Lines 115, 121, 126: what one round prints
BatchLines(table, no, resp) ==
    IF resp.raised # "none" THEN <<Line("batch_exception", table, no, 0)>>
    ELSE IF resp.data # <<>> THEN <<Line("batch_inserted", table, no, Len(resp.data))>>
    ELSE IF resp.error THEN <<Line("batch_error", table, no, 0)>>
    ELSE <<>>

\* The outcome of the remote insert of the round under way (line 108: response,
\* or the exception caught at line 125).
LastResponse == responses[Len(responses)]

\* Lines 104-105: the range yields the next offset and the chunk is sliced; the
\* chunk is a function of data and i, so the model keeps no variable for it.
TakeBatch ==
    /\ LoopContinues
    /\ i' = next_i
    /\ next_i' = NextOffset(next_i, BATCH_SIZE)
    /\ pc' = "try"
    /\ UNCHANGED <<settings, supabase, exit_code, table_name, data, inserted_data,
                   total_inserted, batch_log, submitted, responses, pools, out,
                   callLog, echoed>>

\* Line 108: the remote insert of the chunk is issued.
SubmitBatch ==
    /\ pc = "try"
    /\ submitted' = Append(submitted, Chunk(data, i, BATCH_SIZE))
    /\ callLog' = Append(callLog, Event("call", table_name, i))
    /\ pc' = "wait"
    /\ UNCHANGED <<settings, supabase, exit_code, table_name, data, i, next_i,
                   inserted_data, total_inserted, batch_log, responses, pools, out,
                   echoed>>

\* Line 108: the remote insert returns and `response` is bound, or it raises
\* what line 125 catches and control is at line 126.
ReceiveResponse ==
    /\ pc = "wait"
    /\ Len(responses) < Len(submitted)
    /\ \E resp \in BackendResponses(table_name, submitted[Len(submitted)],
                                    Cardinality(echoed[table_name]) + 1) :
        /\ resp.raised = "none" \/ ExceptionCaught(resp.raised)
        /\ responses' = Append(responses, resp)
        /\ echoed' = [echoed EXCEPT ![table_name] = @ \cup IdsOf(resp.data)]
        /\ pc' = IF resp.raised = "none" THEN "got" ELSE "except"
    /\ callLog' = Append(callLog, Event("return", table_name, i))
    /\ UNCHANGED <<settings, supabase, exit_code, table_name, data, i, next_i,
                   inserted_data, total_inserted, batch_log, submitted, pools, out>>

\* What a SystemExit carries: nothing (exit(), sys.exit()), an integer or a text.
ExitArgs ==
    {[type |-> "none"], [type |-> "str"]}
    \cup {[type |-> "int", value |-> n] : n \in 0..MaxExitCode}

\* The status the interpreter ends with on an uncaught KeyboardInterrupt (it
\* dies of SIGINT: 130) or on an uncaught SystemExit: the integer it carries,
\* 0 when it carries nothing, 1 when it carries a text.
ExitStatus(kind, arg) ==
    IF kind = "KeyboardInterrupt" THEN 130
    ELSE IF arg.type = "none" THEN 0
    ELSE IF arg.type = "int" THEN arg.value % 256
    ELSE 1

\* Lines 108, 125: the remote insert raises what `except Exception` lets through
\* (a SIGINT that arrives during the call included); it propagates out of
\* insert_in_batches and of __main__, and the process ends.
Interrupted ==
    /\ pc = "wait"
    /\ Len(responses) < Len(submitted)
    /\ \E resp \in BackendResponses(table_name, submitted[Len(submitted)],
                                    Cardinality(echoed[table_name]) + 1) :
        /\ resp.raised # "none" /\ ~ExceptionCaught(resp.raised)
        /\ responses' = Append(responses, resp)
        /\ \E arg \in ExitArgs : exit_code' = <<ExitStatus(resp.raised, arg)>>
    /\ callLog' = Append(callLog, Event("return", table_name, i))
    /\ pc' = "interrupted"
    /\ UNCHANGED <<settings, supabase, table_name, data, i, next_i, inserted_data,
                   total_inserted, batch_log, submitted, pools, out, echoed>>

\* Lines 112-113: the response carries data, which is appended to the result.
ExtendInserted ==
    /\ pc = "got"
    /\ HasData(LastResponse)
    /\ inserted_data' = Accumulate(inserted_data, LastResponse)
    /\ pc' = "count"
    /\ UNCHANGED <<settings, supabase, exit_code, table_name, data, i, next_i,
                   total_inserted, batch_log, submitted, responses, pools, out,
                   callLog, echoed>>

\* Line 114
CountInserted ==
    /\ pc = "count"
    /\ total_inserted' = Count(total_inserted, LastResponse)
    /\ pc' = "print"
    /\ UNCHANGED <<settings, supabase, exit_code, table_name, data, i, next_i,
                   inserted_data, batch_log, submitted, responses, pools, out,
                   callLog, echoed>>

\* Line 115
PrintInserted ==
    /\ pc = "print"
    /\ batch_log' = batch_log \o BatchLines(table_name, BatchNo(i, BATCH_SIZE), LastResponse)
    /\ pc' = "loop"
    /\ UNCHANGED <<settings, supabase, exit_code, table_name, data, i, next_i,
                   inserted_data, total_inserted, submitted, responses, pools, out,
                   callLog, echoed>>

\* Lines 112, 120-121: the response carries no data; the round prints the
\* failure when the response carries an error, and nothing otherwise.
HandleNoData ==
    /\ pc = "got"
    /\ ~HasData(LastResponse)
    /\ batch_log' = batch_log \o BatchLines(table_name, BatchNo(i, BATCH_SIZE), LastResponse)
    /\ pc' = "loop"
    /\ UNCHANGED <<settings, supabase, exit_code, table_name, data, i, next_i,
                   inserted_data, total_inserted, submitted, responses, pools, out,
                   callLog, echoed>>

\* Line 126
PrintException ==
    /\ pc = "except"
    /\ batch_log' = batch_log \o BatchLines(table_name, BatchNo(i, BATCH_SIZE), LastResponse)
    /\ pc' = "loop"
    /\ UNCHANGED <<settings, supabase, exit_code, table_name, data, i, next_i,
                   inserted_data, total_inserted, submitted, responses, pools, out,
                   callLog, echoed>>

\* The positions at which the process is over.
Ended == {"config_error", "aborted", "done", "interrupted"}

\* SIGINT arrives between two statements of the script: nothing in the file
\* catches KeyboardInterrupt, so the process ends there with nothing more printed.
\* (While execute() runs, the interrupt is the raise of Interrupted.)
Sigint ==
    /\ pc \notin Ended \cup {"wait"}
    /\ pc' = "interrupted"
    /\ exit_code' = <<ExitStatus("KeyboardInterrupt", [type |-> "none"])>>
    /\ UNCHANGED <<settings, supabase, frame, pools, out, callLog, echoed>>

\* Lines 129-130: the range is exhausted; print the total and return
\* inserted_data. The return changes no value the print left.
ReturnInserted ==
    /\ pc = "loop"
    /\ ~LoopContinues
    /\ batch_log' = Append(batch_log, Line("finished", table_name, total_inserted, 0))
    /\ pc' = "returned"
    /\ UNCHANGED <<settings, supabase, exit_code, table_name, data, i, next_i,
                   inserted_data, total_inserted, submitted, responses, pools, out,
                   callLog, echoed>>

\* ---------------------------------------------------------------- driver
\* Line 135
PrintStarting ==
    /\ pc = "main"
    /\ out' = Append(out, Line("starting", "none", 0, 0))
    /\ pc' = "gen_users"
    /\ UNCHANGED <<settings, supabase, exit_code, frame, pools, callLog, echoed>>

\* Lines 141, 150: [row['id'] for row in rows if 'id' in row]
RECURSIVE ExtractIds(_)
ExtractIds(rows) ==
    IF rows = <<>> THEN <<>>
    ELSE (IF "id" \in DOMAIN Head(rows) THEN <<Head(rows).id>> ELSE <<>>)
         \o ExtractIds(Tail(rows))

\* The emptiness test left out: the driver goes on with an empty pool
PoolEmptyIgnored(ids) == FALSE

\* The emptiness test inverted
PoolEmptyInverted(ids) == ids # <<>>

\* Lines 142, 151: `if not user_ids:` / `if not product_ids:`
PoolEmpty(ids) == ids = <<>>

\* The generated list stays in `data` until the call of the next line binds it.
Generated(d, next) ==
    /\ data' = d
    /\ pc' = next
    /\ UNCHANGED <<settings, supabase, exit_code, table_name, i, next_i, inserted_data,
                   total_inserted, batch_log, submitted, responses, pools, callLog,
                   echoed>>

\* Line 138
GenerateUsers ==
    /\ pc = "gen_users"
    /\ \E d \in generate_users(NUM_USERS) : Generated(d, "call_users")
    /\ UNCHANGED out

\* Line 139: the call
CallInsertUsers ==
    /\ pc = "call_users"
    /\ Enter("users", data)
    /\ UNCHANGED <<settings, supabase, exit_code, pools, out, callLog, echoed>>

\* Lines 139, 141: the returned list is bound and the ids are extracted.
ExtractUserIds ==
    /\ pc = "returned"
    /\ table_name = "users"
    /\ user_ids' = ExtractIds(inserted_data)
    /\ extracted' = extracted \cup {"users"}
    /\ pc' = "extracted"
    /\ UNCHANGED <<settings, supabase, exit_code, frame, product_ids, out, callLog,
                   echoed>>

\* The pool the driver has just extracted.
CurrentPool == IF table_name = "users" THEN user_ids ELSE product_ids

\* Lines 142-143, 151-152: the pool is empty and the critical line is printed.
PrintCritical ==
    /\ pc = "extracted"
    /\ PoolEmpty(CurrentPool)
    /\ out' = Append(out, Line("critical", table_name, 0, 0))
    /\ pc' = "exiting"
    /\ UNCHANGED <<settings, supabase, exit_code, frame, pools, callLog, echoed>>

\* Lines 144, 153: exit() leaves with the default status, 0.
Exit ==
    /\ pc = "exiting"
    /\ pc' = "aborted"
    /\ exit_code' = <<0>>
    /\ UNCHANGED <<settings, supabase, frame, pools, out, callLog, echoed>>

\* Lines 142, 148: the user pool holds an id; the products are generated.
GenerateProducts ==
    /\ pc = "extracted"
    /\ table_name = "users"
    /\ ~PoolEmpty(user_ids)
    /\ \E d \in generate_products(NUM_PRODUCTS) : Generated(d, "call_products")
    /\ UNCHANGED out

\* Line 149: the call
CallInsertProducts ==
    /\ pc = "call_products"
    /\ Enter("products", data)
    /\ UNCHANGED <<settings, supabase, exit_code, pools, out, callLog, echoed>>

\* Lines 149, 150
ExtractProductIds ==
    /\ pc = "returned"
    /\ table_name = "products"
    /\ product_ids' = ExtractIds(inserted_data)
    /\ extracted' = extracted \cup {"products"}
    /\ pc' = "extracted"
    /\ UNCHANGED <<settings, supabase, exit_code, frame, user_ids, out, callLog,
                   echoed>>

\* Lines 151, 157: the product pool holds an id; the orders stage is announced.
PrintGenerating ==
    /\ pc = "extracted"
    /\ table_name = "products"
    /\ ~PoolEmpty(product_ids)
    /\ out' = Append(out, Line("generating_orders", "orders", Len(user_ids),
                               Len(product_ids)))
    /\ pc' = "gen_orders"
    /\ UNCHANGED <<settings, supabase, exit_code, frame, pools, callLog, echoed>>

\* Line 158, and line 79 inside generate_orders when a pool is empty
GenerateOrders ==
    /\ pc = "gen_orders"
    /\ \E d \in generate_orders(NUM_ORDERS, user_ids, product_ids) :
          Generated(d, "orders_generated")
    /\ out' = IF PoolsMissing(user_ids, product_ids)
              THEN Append(out, Line("cannot_generate", "orders", 0, 0))
              ELSE out

\* Lines 159-160: the call, when orders were generated; line 162 otherwise.
InsertOrders ==
    /\ pc = "orders_generated"
    /\ IF data # <<>>
       THEN /\ Enter("orders", data)
            /\ UNCHANGED out
       ELSE /\ out' = Append(out, Line("skipping", "orders", 0, 0))
            /\ pc' = "summary"
            /\ UNCHANGED frame
    /\ UNCHANGED <<settings, supabase, exit_code, pools, callLog, echoed>>

\* Line 160: the call returns to the driver, which binds its result to no name:
\* the list and the locals of the call are gone.
OrdersInserted ==
    /\ pc = "returned"
    /\ table_name = "orders"
    /\ table_name' = "none"
    /\ data' = <<>>
    /\ i' = 0
    /\ next_i' = 0
    /\ inserted_data' = <<>>
    /\ total_inserted' = 0
    /\ batch_log' = <<>>
    /\ submitted' = <<>>
    /\ responses' = <<>>
    /\ pc' = "summary"
    /\ UNCHANGED <<settings, supabase, exit_code, pools, out, callLog, echoed>>

\* One of the three prints that close the script.
Closing(at, kind, next) ==
    /\ pc = at
    /\ out' = Append(out, Line(kind, "none", 0, 0))
    /\ pc' = next
    /\ UNCHANGED <<settings, supabase, exit_code, frame, pools, callLog, echoed>>

\* Line 165
PrintRuleAbove == Closing("summary", "rule", "summary_text")

\* Line 166
PrintSummary == Closing("summary_text", "summary", "summary_rule")

\* Line 167
PrintRuleBelow == Closing("summary_rule", "rule", "end")

\* The script has run to its end and the interpreter exits with status 0.
EndOfScript ==
    /\ pc = "end"
    /\ pc' = "done"
    /\ exit_code' = <<0>>
    /\ UNCHANGED <<settings, supabase, frame, pools, out, callLog, echoed>>

Next ==
    \/ ConfigError
    \/ CreateClient
    \/ PrintStarting
    \/ GenerateUsers
    \/ CallInsertUsers
    \/ PrintAttempting
    \/ TakeBatch
    \/ SubmitBatch
    \/ ReceiveResponse
    \/ Interrupted
    \/ ExtendInserted
    \/ CountInserted
    \/ PrintInserted
    \/ HandleNoData
    \/ PrintException
    \/ ReturnInserted
    \/ ExtractUserIds
    \/ PrintCritical
    \/ Exit
    \/ GenerateProducts
    \/ CallInsertProducts
    \/ ExtractProductIds
    \/ PrintGenerating
    \/ GenerateOrders
    \/ InsertOrders
    \/ OrdersInserted
    \/ PrintRuleAbove
    \/ PrintSummary
    \/ PrintRuleBelow
    \/ EndOfScript
    \/ Sigint

Spec == Init /\ [][Next]_vars

\* ---------------------------------------------------------------- the generators alone
\* Id pools handed to generate_orders when it is called on its own.
PoolSamples(table) ==
    {<<>>, <<<<table, 1>>>>, <<<<table, 2>>>>, <<<<table, 1>>, <<table, 2>>>>,
     <<<<table, 2>>, <<table, 2>>>>}

InitGen ==
    /\ SUPABASE_URL = "set"
    /\ SUPABASE_SERVICE_KEY = "set"
    /\ NUM_USERS \in 0..MaxUsers
    /\ NUM_PRODUCTS \in 0..MaxProducts
    /\ NUM_ORDERS \in 0..MaxOrders
    /\ BATCH_SIZE = 1
    /\ supabase = TRUE
    /\ pc = "call"
    /\ exit_code = <<>>
    /\ table_name = "none"
    /\ data = <<>>
    /\ i = 0
    /\ next_i = 0
    /\ inserted_data = <<>>
    /\ total_inserted = 0
    /\ user_ids \in PoolSamples("users")
    /\ product_ids \in PoolSamples("products")
    /\ extracted = {}
    /\ out = <<>>
    /\ batch_log = <<>>
    /\ submitted = <<>>
    /\ responses = <<>>
    /\ callLog = <<>>
    /\ echoed = [t \in Tables |-> {}]

\* The result of a generator call: the list it returned, in `data`.
Returned(table, d) ==
    /\ table_name' = table
    /\ data' = d
    /\ pc' = "result"
    /\ UNCHANGED <<settings, supabase, exit_code, i, next_i, inserted_data,
                   total_inserted, pools, batch_log, submitted, responses, callLog, echoed>>

\* generate_users(NUM_USERS)
CallGenerateUsers ==
    /\ pc = "call"
    /\ \E d \in generate_users(NUM_USERS) : Returned("users", d)
    /\ UNCHANGED out

\* generate_products(NUM_PRODUCTS)
CallGenerateProducts ==
    /\ pc = "call"
    /\ \E d \in generate_products(NUM_PRODUCTS) : Returned("products", d)
    /\ UNCHANGED out

\* generate_orders(NUM_ORDERS, user_ids, product_ids), line 79 included
CallGenerateOrders ==
    /\ pc = "call"
    /\ \E d \in generate_orders(NUM_ORDERS, user_ids, product_ids) : Returned("orders", d)
    /\ out' = IF PoolsMissing(user_ids, product_ids)
              THEN Append(out, Line("cannot_generate", "orders", 0, 0))
              ELSE out

NextGen ==
    \/ CallGenerateUsers
    \/ CallGenerateProducts
    \/ CallGenerateOrders
    \/ Sigint

SpecGen == InitGen /\ [][NextGen]_vars

\* ---------------------------------------------------------------- insert_in_batches alone
\* insert_in_batches called on a list of any length, the empty one included.
\* It never reads a record, so one list of distinct records stands for each length.
InitInsert ==
    /\ SUPABASE_URL = "set"
    /\ SUPABASE_SERVICE_KEY = "set"
    /\ NUM_USERS \in 0..MaxRecords
    /\ NUM_PRODUCTS = 0
    /\ NUM_ORDERS = 0
    /\ BATCH_SIZE \in 1..MaxBatch
    /\ supabase = TRUE
    /\ pc = "call"
    /\ exit_code = <<>>
    /\ table_name = "none"
    /\ data = <<>>
    /\ i = 0
    /\ next_i = 0
    /\ inserted_data = <<>>
    /\ total_inserted = 0
    /\ user_ids = <<>>
    /\ product_ids = <<>>
    /\ extracted = {}
    /\ out = <<>>
    /\ batch_log = <<>>
    /\ submitted = <<>>
    /\ responses = <<>>
    /\ callLog = <<>>
    /\ echoed = [t \in Tables |-> {}]

\* The list of n records handed to the call: record k is the k-th one generated.
SampleList(n) == [k \in 1..n |-> [email |-> k]]

\* insert_in_batches('users', d, BATCH_SIZE) for the list d of NUM_USERS records
CallInsert ==
    /\ pc = "call"
    /\ Enter("users", SampleList(NUM_USERS))
    /\ UNCHANGED <<settings, supabase, exit_code, pools, out, callLog, echoed>>

NextInsert ==
    \/ CallInsert
    \/ PrintAttempting
    \/ TakeBatch
    \/ SubmitBatch
    \/ ReceiveResponse
    \/ Interrupted
    \/ ExtendInserted
    \/ CountInserted
    \/ PrintInserted
    \/ HandleNoData
    \/ PrintException
    \/ ReturnInserted
    \/ Sigint

SpecInsert == InitInsert /\ [][NextInsert]_vars

\* ---------------------------------------------------------------- properties
\* A failed batch: the call raised what line 125 catches, or returned an error
\* indicator and no data.
Failed(resp) ==
    \/ resp.raised = "Exception"
    \/ (resp.raised = "none" /\ resp.data = <<>> /\ resp.error)

\* A failed batch in the wider sense: the call raised anything, or returned an
\* error indicator, whatever else the response carried.
RaisedOrError(resp) == resp.raised # "none" \/ resp.error

CallsOf(table) == {k \in 1..Len(callLog) : callLog[k].ev = "call" /\ callLog[k].table = table}

InFlight ==
    Cardinality({k \in 1..Len(callLog) : callLog[k].ev = "call"})
    - Cardinality({k \in 1..Len(callLog) : callLog[k].ev = "return"})

\* The call of insert_in_batches has begun and is over: it returned, or the
\* process ended inside it.
CallOver == table_name # "none" /\ pc \in {"returned", "interrupted"}

\* C1 as first stated: every call of insert_in_batches, however it ends, has
\* submitted ceil(N/B) chunks of at most B records that concatenate to the input.
C1_EveryCallSubmitsAll ==
    CallOver =>
        /\ \A k \in 1..Len(submitted) : Len(submitted[k]) <= BATCH_SIZE
        /\ Len(submitted) = CeilDiv(Len(data), BATCH_SIZE)
        /\ Concat(submitted) = data

\* C1, amended: at every moment the chunks submitted so far hold at most B
\* records each, are at most ceil(N/B) and concatenate to an initial part of the
\* input; a call that returns has submitted ceil(N/B) of them, which concatenate
\* to the whole input.
C1_Chunking ==
    /\ \A k \in 1..Len(submitted) : Len(submitted[k]) <= BATCH_SIZE
    /\ Len(submitted) <= CeilDiv(Len(data), BATCH_SIZE)
    /\ Concat(submitted) = Slice(data, 0, Len(Concat(submitted)))
    /\ pc = "returned" =>
          /\ Len(submitted) = CeilDiv(Len(data), BATCH_SIZE)
          /\ Concat(submitted) = data

C1_Witness ==
    /\ pc = "returned"
    /\ Len(data) = 3
    /\ BATCH_SIZE = 2
    /\ Len(submitted) = 2
    /\ Len(submitted[2]) = 1

\* The table's insert stage is over and has yielded no id.
PoolCameBackEmpty(table) ==
    /\ table \in extracted
    /\ (IF table = "users" THEN user_ids ELSE product_ids) = <<>>

\* What holds from the moment the pool of `table` came back empty: the process is
\* at the critical line, at exit(), or over; it ends with the critical line as
\* the last line printed and exit()'s status, or under a SIGINT with status 130.
EndsAfterCritical(table) ==
    /\ table_name = table
    /\ pc \in {"extracted", "exiting", "aborted", "interrupted"}
    /\ pc \in {"exiting", "aborted"} => out[Len(out)] = Line("critical", table, 0, 0)
    /\ pc = "extracted" => "critical" \notin Kinds(out)
    /\ pc = "aborted" => exit_code = <<0>>
    /\ pc = "interrupted" => exit_code = <<130>>
    /\ pc \in {"extracted", "exiting"} => exit_code = <<>>

\* C2 as first stated: once a pool came back empty, the only way the process
\* ends is right after the critical line.
C2_AlwaysEndsAfterCritical ==
    ((PoolCameBackEmpty("users") \/ PoolCameBackEmpty("products")) /\ exit_code # <<>>) =>
        /\ pc = "aborted"
        /\ out[Len(out)].kind = "critical"

\* C2, amended: once the users stage has yielded no id, no product or order
\* record is generated or submitted; once the products stage has yielded no id,
\* no order record is; in both cases nothing but the critical line and exit()
\* is executed any more, and the process ends right after that line unless a
\* SIGINT ends it before.
C2_FailFast ==
    /\ PoolCameBackEmpty("users") =>
          /\ EndsAfterCritical("users")
          /\ \A k \in 1..Len(data) : DOMAIN data[k] = {"email"}
          /\ CallsOf("products") = {} /\ CallsOf("orders") = {}
          /\ "generating_orders" \notin Kinds(out)
    /\ PoolCameBackEmpty("products") =>
          /\ EndsAfterCritical("products")
          /\ \A k \in 1..Len(data) : DOMAIN data[k] = {"category"}
          /\ CallsOf("orders") = {}
          /\ "generating_orders" \notin Kinds(out)

C2_Witness ==
    /\ pc = "aborted"
    /\ "users" \in extracted
    /\ user_ids = <<>>
    /\ inserted_data # <<>>
    /\ NUM_PRODUCTS > 0
    /\ NUM_ORDERS > 0

\* An order record, generated (in data) or submitted (in a chunk).
IsOrder(rec) == "user_id" \in DOMAIN rec

\* C3: every order generated or submitted carries a user_id that a 'users' insert
\* returned in its response data and a product_id that a 'products' insert
\* returned, and both come from the pools generate_orders was given.
C3_OrderRefs ==
    /\ \A k \in 1..Len(data) :
          IsOrder(data[k]) =>
              /\ data[k].user_id \in echoed["users"]
              /\ data[k].product_id \in echoed["products"]
              /\ data[k].user_id \in Range(user_ids)
              /\ data[k].product_id \in Range(product_ids)
    /\ \A c \in 1..Len(submitted) : \A k \in 1..Len(submitted[c]) :
          IsOrder(submitted[c][k]) =>
              /\ submitted[c][k].user_id \in echoed["users"]
              /\ submitted[c][k].product_id \in echoed["products"]
              /\ submitted[c][k].user_id \in Range(user_ids)
              /\ submitted[c][k].product_id \in Range(product_ids)

C3_Witness ==
    /\ table_name = "orders"
    /\ Len(submitted) >= 1
    /\ Len(data) = 2
    /\ data[1].user_id # data[2].user_id
    /\ data[1].product_id # data[2].product_id

FailureLogged(k) ==
    \E n \in 1..Len(batch_log) :
        /\ batch_log[n].kind = (IF responses[k].raised # "none" THEN "batch_exception"
                                ELSE "batch_error")
        /\ batch_log[n].table = table_name
        /\ batch_log[n].n = k

\* As many distinct (table, offset) pairs were called as there were calls.
NoResubmission ==
    LET calls == {k \in 1..Len(callLog) : callLog[k].ev = "call"}
    IN Cardinality({<<callLog[k].table, callLog[k].start>> : k \in calls})
           = Cardinality(calls)

\* The data of the responses that are no failure in the wider sense.
DataWithoutError ==
    Concat([k \in 1..Len(responses) |->
               IF RaisedOrError(responses[k]) THEN <<>> ELSE responses[k].data])

\* The process ended because a remote insert raised.
EndedByRaise ==
    /\ pc = "interrupted"
    /\ responses # <<>>
    /\ LastResponse.raised \notin {"none", "Exception"}

\* C4 as first stated: every remote insert that raises, whatever it raises, or
\* returns an error indicator, whatever else it returns, is logged as failed and
\* adds nothing to the result, and no such failure ends the run.
C4_AnyFailureNonFatal ==
    /\ pc = "returned" =>
          /\ \A k \in 1..Len(responses) : RaisedOrError(responses[k]) => FailureLogged(k)
          /\ inserted_data = DataWithoutError
    /\ ~EndedByRaise

\* The failure of batch k has been dealt with: a later round has begun, or the
\* round of batch k is past its print.
Handled(k) == k < Len(responses) \/ pc \in {"loop", "try", "wait", "returned"}

\* A failed response is waiting for its print (line 121 or 126).
FailurePending ==
    /\ pc \in {"got", "except"}
    /\ Failed(LastResponse)

\* The step that receives a failed response leaves the result, the count and
\* the process alone and goes to the print of the failure.
FailureReceived ==
    (Len(responses') = Len(responses) + 1 /\ Failed(responses'[Len(responses')])) =>
        /\ inserted_data' = inserted_data
        /\ total_inserted' = total_inserted
        /\ exit_code' = <<>>
        /\ pc' \in {"got", "except"}

\* The step taken on a pending failure: the print of the failure, after which
\* the loop is at its head with nothing added, or a SIGINT.
FailureSkipped ==
    FailurePending =>
        /\ inserted_data' = inserted_data
        /\ total_inserted' = total_inserted
        /\ submitted' = submitted
        /\ \/ /\ pc' = "loop"
              /\ exit_code' = <<>>
              /\ Len(batch_log') = Len(batch_log) + 1
              /\ batch_log'[Len(batch_log')].n = Len(responses)
              /\ batch_log'[Len(batch_log')].kind \in {"batch_error", "batch_exception"}
           \/ /\ pc' = "interrupted"
              /\ exit_code' = <<130>>

\* At the head of the loop with input left, the next chunk is taken, unless a
\* SIGINT ends the process.
LoopGoesOn ==
    (pc = "loop" /\ next_i < Len(data)) =>
        \/ pc' = "try" /\ i' = next_i /\ exit_code' = <<>>
        \/ pc' = "interrupted" /\ exit_code' = <<130>>

\* C4, amended: a remote insert that raises an Exception or returns an error
\* indicator and no data is logged as failed, unless a SIGINT ends the process
\* before the print; it adds nothing to the result and does not end the process
\* or the loop, which moves on to the next chunk; a call that returns has
\* submitted every chunk, and no chunk of a table is ever submitted twice.
C4_FailureNonFatal ==
    /\ [](NoResubmission
          /\ (\A k \in 1..Len(responses) :
                 (Failed(responses[k]) /\ Handled(k)) => FailureLogged(k))
          /\ (pc = "returned" => Len(submitted) = CeilDiv(Len(data), BATCH_SIZE)))
    /\ [][FailureReceived /\ FailureSkipped /\ LoopGoesOn]_vars

C4_Witness ==
    /\ pc = "returned"
    /\ Len(responses) = 3
    /\ responses[1].raised = "Exception"
    /\ responses[2].raised = "none" /\ responses[2].data = <<>> /\ responses[2].error
    /\ HasData(responses[3])
    /\ Len(inserted_data) = 1

ResponseData == [k \in 1..Len(responses) |-> responses[k].data]

\* The data of the responses before the last one.
EarlierData == Concat(SubSeq(ResponseData, 1, Len(responses) - 1))

\* C5 as first stated: the list returned is the concatenation of the data of the
\* responses, where a call that raised, returned an error indicator or returned
\* no data contributes nothing; the total printed is its length.
C5_ErrorContributesNothing ==
    pc = "returned" =>
        /\ inserted_data = DataWithoutError
        /\ batch_log[Len(batch_log)] = Line("finished", table_name, Len(inserted_data), 0)

\* C5, amended: the list insert_in_batches returns is the concatenation, in
\* submission order, of the data of the responses received, a response that
\* carries data and an error indicator included (a call that raised or returned
\* no data has none), and the total it prints is its length. Inside a round the
\* list and the count hold the data of the earlier responses and, from line 113
\* and line 114 on, that of the last one.
C5_Accumulated ==
    /\ pc = "returned" =>
          /\ inserted_data = Concat(ResponseData)
          /\ total_inserted = Len(inserted_data)
          /\ batch_log[Len(batch_log)] = Line("finished", table_name, Len(inserted_data), 0)
    /\ pc \in {"attempt", "loop", "try", "wait"} =>
          /\ inserted_data = Concat(ResponseData)
          /\ total_inserted = Len(inserted_data)
    /\ pc \in {"got", "except"} =>
          /\ inserted_data = EarlierData
          /\ total_inserted = Len(EarlierData)
    /\ pc = "count" =>
          /\ inserted_data = Concat(ResponseData)
          /\ total_inserted = Len(EarlierData)
    /\ pc = "print" =>
          /\ inserted_data = Concat(ResponseData)
          /\ total_inserted = Len(inserted_data)
    /\ pc = "interrupted" =>
          /\ inserted_data \in {EarlierData, Concat(ResponseData)}
          /\ total_inserted \in {Len(EarlierData), Len(inserted_data)}

C5_Witness ==
    /\ pc = "returned"
    /\ Len(responses) = 3
    /\ HasData(responses[1]) /\ responses[1].error
    /\ ~HasData(responses[2])
    /\ HasData(responses[3])
    /\ Len(inserted_data) = 3

TableRank(t) == IF t = "users" THEN 1 ELSE IF t = "products" THEN 2 ELSE 3

\* C6: the remote inserts of the run go to users, then products, then orders; a
\* call is issued only after the one before it has returned, so at most one is in
\* flight and every call is followed directly by its own return.
C6_Sequential ==
    /\ InFlight \in {0, 1}
    /\ \A k \in 2..Len(callLog) :
          TableRank(callLog[k - 1].table) <= TableRank(callLog[k].table)
    /\ \A k \in 1..Len(callLog) :
          IF k % 2 = 1
          THEN callLog[k].ev = "call"
          ELSE /\ callLog[k].ev = "return"
               /\ callLog[k].table = callLog[k - 1].table
               /\ callLog[k].start = callLog[k - 1].start

C6_Witness ==
    /\ pc = "done"
    /\ Cardinality(CallsOf("users")) = 2
    /\ Cardinality(CallsOf("products")) = 2
    /\ Cardinality(CallsOf("orders")) = 2

\* C7: generate_users(N) and generate_products(N) return N records;
\* generate_orders(N, user_ids, product_ids) returns N records when both pools
\* hold an id and the empty list when one of them is empty, and does not raise.
C7_Counts ==
    pc = "result" =>
        /\ exit_code = <<>>
        /\ table_name = "users" => Len(data) = NUM_USERS
        /\ table_name = "products" => Len(data) = NUM_PRODUCTS
        /\ table_name = "orders" =>
              Len(data) = (IF user_ids = <<>> \/ product_ids = <<>> THEN 0
                           ELSE NUM_ORDERS)

C7_Witness ==
    /\ pc = "result"
    /\ table_name = "orders"
    /\ NUM_ORDERS = 2
    /\ user_ids # <<>>
    /\ product_ids = <<>>
    /\ data = <<>>

\* The URL or the key is unset or empty.
CredentialMissing ==
    SUPABASE_URL \in {"None", ""} \/ SUPABASE_SERVICE_KEY \in {"None", ""}

C9_TerminalStates ==
    (supabase /\ exit_code # <<>> /\ pc # "interrupted") =>
        \/ /\ pc = "done"
           /\ "summary" \in Kinds(out)
           /\ exit_code = <<0>>
        \/ /\ pc = "aborted"
           /\ "critical" \in Kinds(out)
           /\ "summary" \notin Kinds(out)
           /\ exit_code[1] # 0

\* The driver has reached the orders stage: line 157 has been executed.
AtOrdersStage == "generating_orders" \in Kinds(out)

\* The driver has left the orders stage: it is at one of lines 165-167 or over.
AfterOrdersStage == pc \in {"summary", "summary_text", "summary_rule", "end", "done"}

\* C10 as first stated: every run that gets past the products stage issues an
\* 'orders' insert, however it ends.
C10_AlwaysOrdersCall ==
    (NUM_ORDERS > 0 /\ AtOrdersStage /\ exit_code # <<>>) => CallsOf("orders") # {}

\* C10, amended: at the orders stage both pools hold an id, so generate_orders
\* never takes its empty-pool branch; with NUM_ORDERS > 0 the skip branch is not
\* taken, and a run that gets past the products stage has issued an 'orders'
\* insert by the time it leaves the orders stage or ends, unless a SIGINT ended it
\* before the first one.
C10_OrdersStage ==
    /\ AtOrdersStage => (user_ids # <<>> /\ product_ids # <<>>)
    /\ "cannot_generate" \notin Kinds(out)
    /\ NUM_ORDERS > 0 => "skipping" \notin Kinds(out)
    /\ (NUM_ORDERS > 0 /\ AfterOrdersStage) => CallsOf("orders") # {}
    /\ (NUM_ORDERS > 0 /\ AtOrdersStage /\ exit_code # <<>> /\ CallsOf("orders") = {}) =>
          (pc = "interrupted" /\ exit_code = <<130>>)

C10_Witness ==
    /\ pc = "done"
    /\ NUM_ORDERS > 0
    /\ CallsOf("orders") # {}
    /\ Len(user_ids) = 1
    /\ Len(product_ids) = 1

====
